---- MODULE Spec2Model ----
(***************************************************************************)
(* scripts/invoke-demo-bootstrap.py: fetch the bootstrap secret, build the *)
(* API Gateway v2 event, invoke the Lambda through the AWS CLI, parse and  *)
(* print the response.                                                     *)
(*                                                                         *)
(* Python str values are TLA+ strings: Len is len(), \o is +, SubSeq is    *)
(* slicing.  The symbols the script prints outside ASCII are written as    *)
(* ASCII tags: [X] for the cross mark, [OK] for the check mark, -- for the *)
(* dash, NGN for the naira sign; the other emoji are left out.             *)
(***************************************************************************)
EXTENDS Integers, Sequences, FiniteSets, TLC

-----------------------------------------------------------------------------
(* Bounds of the model *)

\* longest secret core the parameter store returns
MaxSecretLen == 6
\* printed bodies range over TruncLimit - MaxOver .. TruncLimit + MaxOver characters
MaxOver == 1
\* longest steps list of a success body
MaxSteps == 2
\* time.time() ranges over 0 .. MaxClock
MaxClock == 1

-----------------------------------------------------------------------------
(* State *)

VARIABLES
    scenario,         \* "solo": one run of the script; "race": two runs at once
    clock,            \* the last value time.time() returned
    payload_file,     \* the file at payload_path
    response_file,    \* the file at response_path
    pc,               \* per run: the statement the run is at; "off": no such run
    ssm_stdout,       \* per run: result.stdout of the secret fetch
    BOOTSTRAP_SECRET, \* per run
    event,            \* per run
    result,           \* per run: the CompletedProcess of the invocation command
    body_str,         \* per run
    body,             \* per run
    out,              \* per run: the lines printed on stdout
    exit_code,        \* per run: the exit status, once pc is "exit"
    exc,              \* per run: the uncaught exception that ended the run, or ""
    calls,            \* per run: how often each external command has been run
    submitted,        \* per run: the payload file as the invocation command read it
    read_from,        \* per run: who wrote the response file the run parsed
    stages            \* per run: the stages entered, in order

vars ==
    << scenario, clock, payload_file, response_file, pc, ssm_stdout, BOOTSTRAP_SECRET,
       event, result, body_str, body, out, exit_code, exc, calls, submitted,
       read_from, stages >>

-----------------------------------------------------------------------------
(* Python strings *)

Min(a, b) == IF a < b THEN a ELSE b

\* s[i] for a 1-based i
Char(s, i) == SubSeq(s, i, i)

\* s[:n]
Slice(s, n) == SubSeq(s, 1, Min(n, Len(s)))

\* s[n:] for a 0-based n
From(s, n) == SubSeq(s, n + 1, Len(s))

\* s * n
RECURSIVE Rep(_, _)
Rep(s, n) ==
    IF n <= 0 THEN ""
    ELSE LET h == Rep(s, n \div 2)
         IN  h \o h \o (IF n % 2 = 1 THEN s ELSE "")

\* the characters str.strip() removes (those the model's texts use)
Whitespace == {" ", "\n", "\t"}

RECURSIVE lstrip(_)
lstrip(s) ==
    IF Len(s) > 0 /\ Char(s, 1) \in Whitespace THEN lstrip(From(s, 1)) ELSE s

RECURSIVE rstrip(_)
rstrip(s) ==
    IF Len(s) > 0 /\ Char(s, Len(s)) \in Whitespace
    THEN rstrip(Slice(s, Len(s) - 1))
    ELSE s

\* strip with a fault: nothing is stripped
strip_nothing(s) == s

\* str.strip()
strip(s) == lstrip(rstrip(s))

\* format(n, ",.0f") for a natural number n
RECURSIVE Thousands(_)
Thousands(n) ==
    IF n < 1000 THEN ToString(n)
    ELSE LET r == n % 1000
         IN  Thousands(n \div 1000) \o ","
               \o (IF r < 10 THEN "00" ELSE IF r < 100 THEN "0" ELSE "")
               \o ToString(r)

-----------------------------------------------------------------------------
(* JSON values and the json module *)

JStr(s)  == [t |-> "str", v |-> s]
JNum(n)  == [t |-> "num", v |-> n]
JBool(b) == [t |-> "bool", v |-> b]
JNull    == [t |-> "null"]
\* items: a sequence of values
JList(items) == [t |-> "list", v |-> items]
\* pairs: a sequence of <<key, value>>, in insertion order, keys distinct
JDict(pairs) == [t |-> "dict", v |-> pairs]

IsDict(v) == v.t = "dict"
IsStr(v)  == v.t = "str"

Has(d, k) == \E i \in 1..Len(d.v) : d.v[i][1] = k

\* d[k], for a key d has
Item(d, k) == d.v[CHOOSE i \in 1..Len(d.v) : d.v[i][1] = k][2]

\* d.get(k, default)
Get(d, k, default) == IF Has(d, k) THEN Item(d, k) ELSE default

\* bool(v)
Truthy(v) ==
    CASE v.t = "null" -> FALSE
      [] v.t = "bool" -> v.v
      [] v.t = "num"  -> v.v # 0
      [] v.t = "str"  -> v.v # ""
      [] OTHER        -> Len(v.v) > 0

\* str(v), as an f-string formats a decoded value
PyStr(v) ==
    CASE v.t = "str"  -> v.v
      [] v.t = "num"  -> ToString(v.v)
      [] v.t = "bool" -> (IF v.v THEN "True" ELSE "False")
      [] v.t = "null" -> "None"

EscapeChar(c) ==
    CASE c = "\"" -> "\\\""
      [] c = "\\" -> "\\\\"
      [] c = "\n" -> "\\n"
      [] c = "\t" -> "\\t"
      [] OTHER    -> c

\* the body of a JSON string literal for s
RECURSIVE escape(_)
escape(s) ==
    IF Len(s) <= 1 THEN (IF s = "" THEN "" ELSE EscapeChar(s))
    ELSE LET h == Len(s) \div 2
         IN  escape(Slice(s, h)) \o escape(From(s, h))

\* indent < 0 stands for indent=None
Newline(indent, level) ==
    IF indent < 0 THEN "" ELSE "\n" \o Rep(" ", indent * level)

ItemSep(indent, level) ==
    IF indent < 0 THEN ", " ELSE "," \o Newline(indent, level)

RECURSIVE Dumps(_, _, _), DumpItems(_, _, _, _), DumpPairs(_, _, _, _)
\* json.dumps(v, indent=indent), at nesting depth level
Dumps(v, indent, level) ==
    CASE v.t = "str"  -> "\"" \o escape(v.v) \o "\""
      [] v.t = "num"  -> ToString(v.v)
      [] v.t = "bool" -> (IF v.v THEN "true" ELSE "false")
      [] v.t = "null" -> "null"
      [] v.t = "list" ->
            IF Len(v.v) = 0 THEN "[]"
            ELSE "[" \o Newline(indent, level + 1)
                     \o DumpItems(v.v, 1, indent, level + 1)
                     \o Newline(indent, level) \o "]"
      [] v.t = "dict" ->
            IF Len(v.v) = 0 THEN "{}"
            ELSE "{" \o Newline(indent, level + 1)
                     \o DumpPairs(v.v, 1, indent, level + 1)
                     \o Newline(indent, level) \o "}"

DumpItems(items, i, indent, level) ==
    Dumps(items[i], indent, level)
      \o (IF i = Len(items) THEN ""
          ELSE ItemSep(indent, level) \o DumpItems(items, i + 1, indent, level))

DumpPairs(pairs, i, indent, level) ==
    "\"" \o escape(pairs[i][1]) \o "\": " \o Dumps(pairs[i][2], indent, level)
      \o (IF i = Len(pairs) THEN ""
          ELSE ItemSep(indent, level) \o DumpPairs(pairs, i + 1, indent, level))

\* json.dumps(v)
json_dumps(v) == Dumps(v, 0 - 1, 0)

\* json.dumps(v, indent=2)
json_dumps_indent2(v) == Dumps(v, 2, 0)

-----------------------------------------------------------------------------
(* The texts the json module decodes in this model *)

TruncLimit == 3000

\* the stdout of `aws lambda invoke`: StatusCode and, on a function error, FunctionError
MetaOk == JDict(<< <<"StatusCode", JNum(200)>>, <<"ExecutedVersion", JStr("$LATEST")>> >>)

MetaFunctionError ==
    JDict(<< <<"StatusCode", JNum(200)>>, <<"FunctionError", JStr("Unhandled")>>,
             <<"ExecutedVersion", JStr("$LATEST")>> >>)

\* the same metadata as the CLI prints it under --output text: not JSON
MetaAsText == "200\t$LATEST\n"

StepKinds ==
    { JDict(<< <<"step", JStr("create tenant")>> >>),
      JDict(<< <<"step", JStr("create org")>>, <<"detail", JStr("")>> >>),
      JDict(<< <<"step", JStr("seed actors")>>, <<"detail", JStr("three users")>> >>) }

StepLists == UNION { [1..n -> StepKinds] : n \in 0..MaxSteps }

Actor ==
    JDict(<< <<"name", JStr("Ada")>>, <<"email", JStr("ada@example.com")>>,
             <<"role", JStr("admin")>>, <<"id", JStr("0123456789abcdef")>> >>)

Org ==
    JDict(<< <<"name", JStr("Acme Bank")>>, <<"type", JStr("BANK")>>,
             <<"id", JStr("fedcba9876543210")>> >>)

Property ==
    JDict(<< <<"title", JStr("Flat A")>>, <<"unitNumber", JStr("12B")>>,
             <<"price", JNum(500000)>> >>)

PaymentMethod == JDict(<< <<"name", JStr("Installment")>>, <<"phases", JNum(3)>> >>)

\* a success body: who is a sequence of <<name, actor>>, orgs of <<name, organization>>
BodySuccess(who, orgs, steps) ==
    JDict(<< <<"success", JBool(TRUE)>>, <<"tenantId", JStr("t-1")>>,
             <<"actors", JDict(who)>>, <<"organizations", JDict(orgs)>>,
             <<"property", Property>>, <<"paymentMethod", PaymentMethod>>,
             <<"steps", JList(steps)>> >>)

BodyFailure(error) == JDict(<< <<"success", JBool(FALSE)>>, <<"error", JStr(error)>> >>)

\* the failure bodies whose indented dump is n characters long
BodyFailureOfLen(n) ==
    BodyFailure(Rep("b", n - Len(json_dumps_indent2(BodyFailure("")))))

BodyLens == (TruncLimit - MaxOver)..(TruncLimit + MaxOver)

\* a success flag with none of the fields the summary reads
BodyBare == JDict(<< <<"success", JBool(TRUE)>> >>)

BodyValues ==
    { BodySuccess(<<>>, <<>>, steps) : steps \in StepLists }
      \cup { BodySuccess(<< <<"admin", Actor>> >>, << <<"bank", Org>> >>, <<>>) }
      \cup { BodyFailure("boom"), BodyBare, JDict(<<>>), JList(<<>>) }
      \cup { BodyFailureOfLen(n) : n \in BodyLens }

\* body texts that are not JSON
RawBodies == { "oops" } \cup { Rep("x", n) : n \in BodyLens }

BodyTexts == { json_dumps(b) : b \in BodyValues } \cup RawBodies

Response(b) == JDict(<< <<"statusCode", JNum(200)>>, <<"body", b>> >>)

\* what the Lambda runtime returns when the function throws: no statusCode, no body
ResponseFunctionError ==
    JDict(<< <<"errorMessage", JStr("boom")>>, <<"errorType", JStr("Error")>> >>)

ResponseValues ==
    { Response(JStr(t)) : t \in BodyTexts }
      \cup { Response(BodyFailure("boom")), ResponseFunctionError, JList(<<>>) }

\* response files: a JSON document, or an empty file
ResponseTexts == { json_dumps(v) : v \in ResponseValues } \cup { "" }

JsonUniverse == BodyValues \cup ResponseValues \cup { MetaOk, MetaFunctionError }

JsonTable == { <<json_dumps(v), v>> : v \in JsonUniverse }

\* json_loads with a fault: every text decodes, an undecodable one to {}
json_loads_lenient(text) ==
    IF \E e \in JsonTable : e[1] = text
    THEN [ok |-> TRUE, v |-> (CHOOSE e \in JsonTable : e[1] = text)[2]]
    ELSE [ok |-> TRUE, v |-> JDict(<<>>)]

\* json.loads(text): the value whose JSON text this is, or a JSONDecodeError
json_loads(text) ==
    IF \E e \in JsonTable : e[1] = text
    THEN [ok |-> TRUE, v |-> (CHOOSE e \in JsonTable : e[1] = text)[2]]
    ELSE [ok |-> FALSE]

-----------------------------------------------------------------------------
(* What the two external commands may produce *)

Pads == { "", " ", "\n" }

\* the parameter's value: k's, and two values with an inner blank and with the
\* characters a JSON string literal escapes
SecretCores ==
    { Rep("k", n) : n \in 0..MaxSecretLen } \cup { "k k", "k\"k\\k" }

\* stdout of `aws ssm get-parameter`
SsmStdouts == { l \o c \o t : l \in Pads, c \in SecretCores, t \in Pads }

\* stdout of `aws lambda invoke`
InvokeStdouts ==
    { "", json_dumps(MetaOk) \o "\n", json_dumps(MetaFunctionError) \o "\n", MetaAsText }

\* exit codes of `aws lambda invoke`: success, and the CLI's general error code
InvokeReturnCodes == { 0, 255 }

InvokeStderr(rc) ==
    IF rc = 0 THEN "" ELSE "An error occurred (ServiceException) when calling the Invoke operation\n"

NoFile == [exists |-> FALSE]
\* a file holding text, last written by the process `by`
File(text, by) == [exists |-> TRUE, text |-> text, by |-> by]

\* the invocation command leaves its output file alone, or writes a response to it
NoWrite == [write |-> FALSE]
Write(text) == [write |-> TRUE, text |-> text]
InvokeWrites == { NoWrite } \cup { Write(t) : t \in ResponseTexts }

\* a response file an earlier run of the script left behind
StaleResponse ==
    File(json_dumps(Response(JStr(json_dumps(BodySuccess(<<>>, <<>>, <<>>))))), "earlier")

Runs == { "A", "B" }

\* one run of the script, every outcome of the external commands
SoloEnv ==
    [ ssm |-> SsmStdouts, times |-> {0}, rcs |-> InvokeReturnCodes,
      stdouts |-> InvokeStdouts, writes |-> InvokeWrites ]

\* two runs of the script at once, the external commands succeeding
RaceEnv ==
    [ ssm |-> { Rep("k", MaxSecretLen) \o "\n" }, times |-> 0..MaxClock, rcs |-> {0},
      stdouts |-> { json_dumps(MetaOk) \o "\n" },
      writes |-> { NoWrite, Write(json_dumps(Response(JStr(json_dumps(BodyFailure("boom")))))) } ]

\* what the external commands may produce in this behaviour
env == IF scenario = "solo" THEN SoloEnv ELSE RaceEnv

-----------------------------------------------------------------------------
(* The script *)

payload_path == "/tmp/demo-bootstrap-payload.json"
response_path == "/tmp/demo-bootstrap-response.json"

body_obj ==
    JDict(<< <<"propertyServiceUrl", JStr("https://z32oarlcp7.execute-api.us-east-1.amazonaws.com")>>,
             <<"mortgageServiceUrl", JStr("https://el0slr8sg5.execute-api.us-east-1.amazonaws.com")>>,
             <<"paymentServiceUrl", JStr("https://cmwxqd18ga.execute-api.us-east-1.amazonaws.com")>> >>)

\* datetime.utcnow().strftime("%d/%b/%Y:%H:%M:%S +0000"), t seconds after the epoch, t < 60
TimeStr(t) ==
    "01/Jan/1970:00:00:" \o (IF t < 10 THEN "0" ELSE "") \o ToString(t) \o " +0000"

\* Headers with a fault: the header carries the preview of the secret
Headers_preview(secret) ==
    JDict(<< <<"content-type", JStr("application/json")>>,
             <<"x-bootstrap-secret", JStr(Slice(secret, 5))>> >>)

\* the headers of the event
Headers(secret) ==
    JDict(<< <<"content-type", JStr("application/json")>>,
             <<"x-bootstrap-secret", JStr(secret)>> >>)

\* the event built from the secret at time t
Event(secret, t) ==
    JDict(<< <<"version", JStr("2.0")>>,
             <<"routeKey", JStr("ANY /admin/{proxy+}")>>,
             <<"rawPath", JStr("/admin/demo-bootstrap")>>,
             <<"rawQueryString", JStr("")>>,
             <<"headers", Headers(secret)>>,
             <<"requestContext",
               JDict(<< <<"accountId", JStr("anonymous")>>,
                        <<"apiId", JStr("1oi4sd5b4i")>>,
                        <<"domainName", JStr("1oi4sd5b4i.execute-api.us-east-1.amazonaws.com")>>,
                        <<"domainPrefix", JStr("1oi4sd5b4i")>>,
                        <<"http", JDict(<< <<"method", JStr("POST")>>,
                                           <<"path", JStr("/admin/demo-bootstrap")>>,
                                           <<"protocol", JStr("HTTP/1.1")>>,
                                           <<"sourceIp", JStr("127.0.0.1")>>,
                                           <<"userAgent", JStr("test-script")>> >>)>>,
                        <<"requestId", JStr("test-" \o ToString(t))>>,
                        <<"routeKey", JStr("ANY /admin/{proxy+}")>>,
                        <<"stage", JStr("$default")>>,
                        <<"time", JStr(TimeStr(t))>>,
                        <<"timeEpoch", JNum(t * 1000)>> >>)>>,
             <<"body", JStr(json_dumps(body_obj))>>,
             <<"isBase64Encoded", JBool(FALSE)>> >>)

\* PayloadText with a fault: the body object is dumped in place of the event
PayloadText_body_obj(ev) == json_dumps(body_obj)

\* json.dump(event, f): the text written to the payload file
PayloadText(ev) == json_dumps(ev)

\* BOOTSTRAP_SECRET[:5]
SecretPreview(secret) == Slice(secret, 5)

\* Truncate with a fault: one character more
Truncate_one_more(s) == SubSeq(s, 1, Min(TruncLimit + 1, Len(s)))

\* s[:3000]
Truncate(s) == Slice(s, TruncLimit)

\* what a print statement does: a line on stdout, or an exception raised while
\* its argument is evaluated
Line(s) == [exc |-> "", text |-> s]
Raise(e) == [exc |-> e, text |-> ""]

\* the lines printed up to the first statement that raises
RECURSIVE Printed(_)
Printed(stmts) ==
    IF Len(stmts) = 0 \/ Head(stmts).exc # "" THEN <<>>
    ELSE <<Head(stmts).text>> \o Printed(Tail(stmts))

\* the exception that ends the statements, "" if none does
RECURSIVE Raised(_)
Raised(stmts) ==
    IF Len(stmts) = 0 THEN ""
    ELSE IF Head(stmts).exc # "" THEN Head(stmts).exc
    ELSE Raised(Tail(stmts))

HasAll(d, keys) == \A k \in keys : Has(d, k)

TenantLine(b) ==
    IF ~Has(b, "tenantId") THEN Raise("KeyError")
    ELSE Line("   Tenant: " \o PyStr(Item(b, "tenantId")))

ActorLine(actor) ==
    IF ~IsDict(actor) THEN Raise("TypeError")
    ELSE IF ~HasAll(actor, {"name", "email", "role", "id"}) THEN Raise("KeyError")
    ELSE IF ~IsStr(Item(actor, "id")) THEN Raise("TypeError")
    ELSE Line("     " \o PyStr(Item(actor, "name")) \o " (" \o PyStr(Item(actor, "email"))
                \o ") -- " \o PyStr(Item(actor, "role")) \o " -- "
                \o Slice(Item(actor, "id").v, 8) \o "...")

OrgLine(org) ==
    IF ~IsDict(org) THEN Raise("TypeError")
    ELSE IF ~HasAll(org, {"name", "type", "id"}) THEN Raise("KeyError")
    ELSE IF ~IsStr(Item(org, "id")) THEN Raise("TypeError")
    ELSE Line("     " \o PyStr(Item(org, "name")) \o " (" \o PyStr(Item(org, "type"))
                \o ") -- " \o Slice(Item(org, "id").v, 8) \o "...")

PropertyLine(prop) ==
    IF ~IsDict(prop) THEN Raise("AttributeError")
    ELSE IF Get(prop, "price", JNum(0)).t # "num" THEN Raise("TypeError")
    ELSE Line("   Property: " \o PyStr(Get(prop, "title", JNull)) \o " / "
                \o PyStr(Get(prop, "unitNumber", JNull)) \o " -- NGN"
                \o Thousands(Get(prop, "price", JNum(0)).v))

PaymentMethodLine(pm) ==
    IF ~IsDict(pm) THEN Raise("AttributeError")
    ELSE Line("   Payment Method: " \o PyStr(Get(pm, "name", JNull)) \o " ("
                \o PyStr(Get(pm, "phases", JNull)) \o " phases)")

\* StepLine with a fault: the detail suffix whenever the step has a detail key
StepLine_any_detail(s) ==
    IF ~IsDict(s) THEN Raise("AttributeError")
    ELSE IF ~Has(s, "step") THEN Raise("KeyError")
    ELSE Line("     [OK] " \o PyStr(Item(s, "step"))
                \o (IF Has(s, "detail") THEN " -- " \o PyStr(Item(s, "detail")) ELSE ""))

StepLine(s) ==
    IF ~IsDict(s) THEN Raise("AttributeError")
    ELSE IF ~Has(s, "step") THEN Raise("KeyError")
    ELSE Line("     [OK] " \o PyStr(Item(s, "step"))
                \o (IF Truthy(Get(s, "detail", JNull))
                    THEN " -- " \o PyStr(Item(s, "detail")) ELSE ""))

\* for name, actor in actors.items(): one statement per value
ActorLines(actors) == [i \in 1..Len(actors.v) |-> ActorLine(actors.v[i][2])]

\* for name, org in organizations.items(): one statement per value
OrgLines(orgs) == [i \in 1..Len(orgs.v) |-> OrgLine(orgs.v[i][2])]

StepLines(steps) ==
    <<Line("   Steps (" \o ToString(Len(steps.v)) \o "):")>>
      \o [i \in 1..Len(steps.v) |-> StepLine(steps.v[i])]

\* the statements of the success branch
SuccessStmts(b) ==
    <<Line("[OK] SUCCESS"), TenantLine(b), Line(""), Line("   Actors:")>>
      \o ActorLines(Get(b, "actors", JDict(<<>>)))
      \o <<Line(""), Line("   Organizations:")>>
      \o OrgLines(Get(b, "organizations", JDict(<<>>)))
      \o <<Line(""),
           PropertyLine(Get(b, "property", JDict(<<>>))),
           PaymentMethodLine(Get(b, "paymentMethod", JDict(<<>>))),
           Line("")>>
      \o StepLines(Get(b, "steps", JList(<<>>)))

\* the statements of the failure branch
FailureStmts(b) ==
    <<Line("[X] FAILED"), Line(Truncate(json_dumps_indent2(b)))>>

\* the statements that render a decoded body
RenderStmts(b) ==
    IF ~IsDict(b) THEN <<Raise("AttributeError")>>
    ELSE IF Truthy(Get(b, "success", JNull)) THEN SuccessStmts(b)
    ELSE FailureStmts(b)

-----------------------------------------------------------------------------
(* Initial state *)

\* the value of a variable not assigned yet
Unset == [t |-> "unset"]

NoResult == [returncode |-> 0, stdout |-> "", stderr |-> ""]

InitRun(started) ==
    /\ pc = [r \in Runs |-> IF r \in started THEN "FetchSecret" ELSE "off"]
    /\ stages = [r \in Runs |-> IF r \in started THEN <<"FetchSecret">> ELSE <<>>]
    /\ clock = 0
    /\ payload_file = NoFile
    /\ ssm_stdout = [r \in Runs |-> ""]
    /\ BOOTSTRAP_SECRET = [r \in Runs |-> ""]
    /\ event = [r \in Runs |-> Unset]
    /\ result = [r \in Runs |-> NoResult]
    /\ body_str = [r \in Runs |-> Unset]
    /\ body = [r \in Runs |-> Unset]
    /\ out = [r \in Runs |-> <<>>]
    /\ exit_code = [r \in Runs |-> 0]
    /\ exc = [r \in Runs |-> ""]
    /\ calls = [r \in Runs |-> [ssm |-> 0, invoke |-> 0]]
    /\ submitted = [r \in Runs |-> NoFile]
    /\ read_from = [r \in Runs |-> ""]

\* one run, with or without a response file left by an earlier run; or two runs at once
Init ==
    \/ /\ scenario = "solo"
       /\ response_file \in { NoFile, StaleResponse }
       /\ InitRun({"A"})
    \/ /\ scenario = "race"
       /\ response_file = NoFile
       /\ InitRun(Runs)

\* the stage of the script a statement belongs to
Stage(at) == IF at = "WritePayload" THEN "BuildEnvelope" ELSE at

\* control moves on to the statement `to`
Goto(r, to) ==
    /\ pc' = [pc EXCEPT ![r] = to]
    /\ stages' = [stages EXCEPT ![r] =
                    IF Stage(to) = Stage(pc[r]) THEN @ ELSE Append(@, Stage(to))]
    /\ UNCHANGED << exit_code, exc >>

\* sys.exit(code), and the end of the script with code 0
SysExit(r, code) ==
    /\ pc' = [pc EXCEPT ![r] = "exit"]
    /\ exit_code' = [exit_code EXCEPT ![r] = code]
    /\ UNCHANGED << exc, stages >>

\* an exception nothing catches: the interpreter prints the traceback on stderr
\* and exits with status 1
Uncaught(r, e) ==
    /\ pc' = [pc EXCEPT ![r] = "exit"]
    /\ exit_code' = [exit_code EXCEPT ![r] = 1]
    /\ exc' = [exc EXCEPT ![r] = e]
    /\ UNCHANGED stages

print(r, lines) == out' = [out EXCEPT ![r] = @ \o lines]

-----------------------------------------------------------------------------
(* The statements of the script, one action per stage *)

\* lines 12-34
FetchSecret(r) ==
    /\ pc[r] = "FetchSecret"
    /\ \E stdout \in env.ssm :
         LET secret == strip(stdout)
         IN  /\ ssm_stdout' = [ssm_stdout EXCEPT ![r] = stdout]
             /\ BOOTSTRAP_SECRET' = [BOOTSTRAP_SECRET EXCEPT ![r] = secret]
             /\ IF secret = ""
                THEN /\ print(r, <<"Fetching bootstrap secret from SSM...",
                                   "[X] Failed to get bootstrap secret">>)
                     /\ SysExit(r, 1)
                ELSE /\ print(r, <<"Fetching bootstrap secret from SSM...",
                                   "   Got secret: " \o SecretPreview(secret) \o "...">>)
                     /\ Goto(r, "BuildEnvelope")
    /\ calls' = [calls EXCEPT ![r].ssm = @ + 1]
    /\ UNCHANGED << scenario, clock, payload_file, response_file, event, result, body_str,
                    body, submitted, read_from >>

\* lines 36-77: the event is built and the payload file opened for writing, which
\* creates or empties it
BuildEnvelope(r) ==
    /\ pc[r] = "BuildEnvelope"
    /\ \E t \in env.times :
         /\ t >= clock
         /\ clock' = t
         /\ event' = [event EXCEPT ![r] = Event(BOOTSTRAP_SECRET[r], t)]
    /\ payload_file' = File("", r)
    /\ Goto(r, "WritePayload")
    /\ UNCHANGED << scenario, response_file, ssm_stdout, BOOTSTRAP_SECRET, result, body_str,
                    body, out, calls, submitted, read_from >>

\* lines 78-79
WritePayload(r) ==
    /\ pc[r] = "WritePayload"
    /\ payload_file' = File(PayloadText(event[r]), r)
    /\ print(r, <<"Payload written to " \o payload_path>>)
    /\ Goto(r, "Invoke")
    /\ UNCHANGED << scenario, clock, response_file, ssm_stdout, BOOTSTRAP_SECRET, event,
                    result, body_str, body, calls, submitted, read_from >>

\* lines 81-109: the command reads the payload file, may write the response file,
\* and returns
Invoke(r) ==
    /\ pc[r] = "Invoke"
    /\ \E rc \in env.rcs, stdout \in env.stdouts, w \in env.writes :
         /\ result' = [result EXCEPT ![r] =
                         [returncode |-> rc, stdout |-> stdout, stderr |-> InvokeStderr(rc)]]
         /\ response_file' = IF w.write THEN File(w.text, r) ELSE response_file
         /\ IF rc # 0
            THEN /\ print(r, <<"", "Invoking Lambda directly (bypassing API Gateway 30s limit)...",
                               "   Function: qshelter-user-service-staging-api", "",
                               "Lambda invocation took <elapsed>s",
                               "[X] AWS CLI error: " \o InvokeStderr(rc)>>)
                 /\ SysExit(r, 1)
            ELSE /\ print(r, <<"", "Invoking Lambda directly (bypassing API Gateway 30s limit)...",
                               "   Function: qshelter-user-service-staging-api", "",
                               "Lambda invocation took <elapsed>s">>)
                 /\ Goto(r, "InspectMeta")
    /\ submitted' = [submitted EXCEPT ![r] = payload_file]
    /\ calls' = [calls EXCEPT ![r].invoke = @ + 1]
    /\ UNCHANGED << scenario, clock, payload_file, ssm_stdout, BOOTSTRAP_SECRET, event,
                    body_str, body, read_from >>

\* lines 111-116
InspectMeta(r) ==
    /\ pc[r] = "InspectMeta"
    /\ LET invoke_meta == strip(result[r].stdout)
           meta == json_loads(invoke_meta)
       IN  IF invoke_meta = ""
           THEN Goto(r, "ParseResponse") /\ UNCHANGED out
           ELSE IF ~meta.ok
           THEN Uncaught(r, "JSONDecodeError") /\ UNCHANGED out
           ELSE IF ~IsDict(meta.v)
           THEN Uncaught(r, "AttributeError") /\ UNCHANGED out
           ELSE IF Truthy(Get(meta.v, "FunctionError", JNull))
           THEN /\ print(r, <<"[X] Lambda function error: "
                                \o PyStr(Item(meta.v, "FunctionError"))>>)
                /\ Goto(r, "ParseResponse")
           ELSE Goto(r, "ParseResponse") /\ UNCHANGED out
    /\ UNCHANGED << scenario, clock, payload_file, response_file, ssm_stdout, BOOTSTRAP_SECRET,
                    event, result, body_str, body, calls, submitted, read_from >>

\* lines 118-132
ParseResponse(r) ==
    /\ pc[r] = "ParseResponse"
    /\ IF ~response_file.exists
       THEN /\ print(r, <<"", "--- Response ---">>)
            /\ Uncaught(r, "FileNotFoundError")
            /\ UNCHANGED << body_str, body, read_from >>
       ELSE
         LET resp == json_loads(response_file.text)
         IN  /\ read_from' = [read_from EXCEPT ![r] = response_file.by]
             /\ IF ~resp.ok
                THEN /\ print(r, <<"", "--- Response ---">>)
                     /\ Uncaught(r, "JSONDecodeError")
                     /\ UNCHANGED << body_str, body >>
                ELSE IF ~IsDict(resp.v)
                THEN /\ print(r, <<"", "--- Response ---">>)
                     /\ Uncaught(r, "AttributeError")
                     /\ UNCHANGED << body_str, body >>
                ELSE
                  LET status == Get(resp.v, "statusCode", JStr("N/A"))
                      bs == Get(resp.v, "body", JStr("{}"))
                      decoded == IF IsStr(bs) THEN json_loads(bs.v) ELSE [ok |-> FALSE]
                      head == <<"", "--- Response ---", "HTTP Status: " \o PyStr(status)>>
                  IN  /\ body_str' = [body_str EXCEPT ![r] = bs]
                      /\ IF decoded.ok
                         THEN /\ body' = [body EXCEPT ![r] = decoded.v]
                              /\ print(r, head)
                              /\ Goto(r, "Render")
                         ELSE IF IsStr(bs)
                         THEN /\ print(r, head \o <<"Raw body: " \o Truncate(bs.v)>>)
                              /\ SysExit(r, 1)
                              /\ UNCHANGED body
                         \* json.loads raised a TypeError, and so does the slice of
                         \* a dict in the handler
                         ELSE /\ print(r, head)
                              /\ Uncaught(r, "TypeError")
                              /\ UNCHANGED body
    /\ UNCHANGED << scenario, clock, payload_file, response_file, ssm_stdout, BOOTSTRAP_SECRET,
                    event, result, calls, submitted >>

\* lines 134-162
Render(r) ==
    /\ pc[r] = "Render"
    /\ LET stmts == RenderStmts(body[r])
       IN  /\ print(r, Printed(stmts))
           /\ IF Raised(stmts) = "" THEN SysExit(r, 0) ELSE Uncaught(r, Raised(stmts))
    /\ UNCHANGED << scenario, clock, payload_file, response_file, ssm_stdout, BOOTSTRAP_SECRET,
                    event, result, body_str, body, calls, submitted, read_from >>

Next ==
    \E r \in Runs :
        \/ FetchSecret(r)
        \/ BuildEnvelope(r)
        \/ WritePayload(r)
        \/ Invoke(r)
        \/ InspectMeta(r)
        \/ ParseResponse(r)
        \/ Render(r)

Spec == Init /\ [][Next]_vars

-----------------------------------------------------------------------------
(* Properties *)

Started(r) == pc[r] # "off"

\* p occurs in s
Contains(s, p) ==
    \E i \in 1..(Len(s) - Len(p) + 1) : SubSeq(s, i, i + Len(p) - 1) = p

StartsWith(s, p) == Len(p) <= Len(s) /\ Slice(s, Len(p)) = p

Last(seq) == seq[Len(seq)]

AllWhitespace(s) == \A i \in 1..Len(s) : Char(s, i) \in Whitespace

\* the run wrote the payload file, and the file still holds what it wrote
HoldsPayloadOf(r) ==
    payload_file.exists /\ payload_file.by = r /\ pc[r] \notin {"FetchSecret", "WritePayload"}

\* C1: if the stdout of the secret fetch is empty or whitespace only, the run exits
\* with a nonzero status, having neither run the invocation command nor written
\* the payload file.
C1_EmptySecretAborts ==
    \A r \in Runs :
        (calls[r].ssm > 0 /\ AllWhitespace(ssm_stdout[r])) =>
            /\ pc[r] = "exit"
            /\ exit_code[r] # 0
            /\ calls[r].invoke = 0
            /\ submitted[r] = NoFile
            /\ event[r] = Unset
            /\ ~(payload_file.exists /\ payload_file.by = r)
            /\ stages[r] = <<"FetchSecret">>

\* a run that fetched a stdout of whitespace, and no other character
C1_Witness ==
    \E r \in Runs :
        /\ calls[r].ssm > 0
        /\ Len(ssm_stdout[r]) > 0
        /\ AllWhitespace(ssm_stdout[r])
        /\ pc[r] = "exit"

\* json.loads raised on the body of the response
BodyDecodeFailed(r) ==
    /\ body_str[r] # Unset
    /\ \/ ~IsStr(body_str[r])
       \/ body_str[r].v \in RawBodies

\* C2: a run exits with status 1 exactly when the secret was empty, the invocation
\* command exited non-zero, or the response body failed to decode; otherwise with 0.
C2_ExitCodeExact ==
    \A r \in Runs :
        pc[r] = "exit" =>
            (exit_code[r] = 1 <=>
                \/ BOOTSTRAP_SECRET[r] = ""
                \/ result[r].returncode # 0
                \/ BodyDecodeFailed(r))

Chain ==
    <<"FetchSecret", "BuildEnvelope", "Invoke", "InspectMeta", "ParseResponse", "Render">>

IsPrefix(p, q) == Len(p) <= Len(q) /\ SubSeq(q, 1, Len(p)) = p

\* C3: a run passes through the stages of Chain in order, revisits none, runs each
\* external command at most once, and never ends at InspectMeta: that stage always
\* continues to ParseResponse.
C3_LinearChain ==
    \A r \in Runs :
        /\ IsPrefix(stages[r], Chain)
        /\ calls[r].ssm <= 1
        /\ calls[r].invoke <= 1
        /\ (pc[r] = "exit" => Last(stages[r]) # "InspectMeta")

RawPrefix == "Raw body: "

\* the run decoded the response file and its body is a text that is not JSON
RawBodyRead(r) ==
    body_str[r] # Unset /\ IsStr(body_str[r]) /\ body_str[r].v \in RawBodies

PreviewPrefix == "   Got secret: "

\* the preview of the secret the run printed
PreviewShown(r) ==
    SubSeq(out[r][2], Len(PreviewPrefix) + 1, Len(out[r][2]) - Len("..."))

\* C5: for every non-empty secret the preview the run prints is a proper prefix of
\* the secret, never the whole of it.
C5_PreviewIsProperPrefix ==
    \A r \in Runs :
        (calls[r].ssm > 0 /\ BOOTSTRAP_SECRET[r] # "") =>
            /\ StartsWith(out[r][2], PreviewPrefix)
            /\ StartsWith(BOOTSTRAP_SECRET[r], PreviewShown(r))
            /\ Len(PreviewShown(r)) < Len(BOOTSTRAP_SECRET[r])
            /\ PreviewShown(r) # BOOTSTRAP_SECRET[r]

\* the JSON text of an event up to the value of its x-bootstrap-secret header
HeaderPrefix ==
    "{\"version\": \"2.0\", \"routeKey\": \"ANY /admin/{proxy+}\", "
      \o "\"rawPath\": \"/admin/demo-bootstrap\", \"rawQueryString\": \"\", "
      \o "\"headers\": {\"content-type\": \"application/json\", "
      \o "\"x-bootstrap-secret\": \""

Unescape(c) == CASE c = "n" -> "\n" [] c = "t" -> "\t" [] OTHER -> c

\* the string whose JSON literal has its first character at text[i], after the
\* opening quote
RECURSIVE JsonStringAt(_, _)
JsonStringAt(text, i) ==
    IF i > Len(text) \/ Char(text, i) = "\"" THEN ""
    ELSE IF Char(text, i) = "\\"
    THEN Unescape(Char(text, i + 1)) \o JsonStringAt(text, i + 2)
    ELSE Char(text, i) \o JsonStringAt(text, i + 1)

\* s is t without the whitespace around it
IsTrimOf(s, t) ==
    /\ Len(s) > 0
    /\ Char(s, 1) \notin Whitespace
    /\ Char(s, Len(s)) \notin Whitespace
    /\ \E i \in 0..Len(t) :
         /\ i + Len(s) <= Len(t)
         /\ SubSeq(t, i + 1, i + Len(s)) = s
         /\ AllWhitespace(Slice(t, i))
         /\ AllWhitespace(From(t, i + Len(s)))

\* C6: the x-bootstrap-secret header of the event in the payload file is the fetched
\* secret, character for character: the stdout of the secret fetch without the
\* whitespace around it.
C6_HeaderIsSecret ==
    \A r \in Runs :
        HoldsPayloadOf(r) =>
            /\ StartsWith(payload_file.text, HeaderPrefix)
            /\ JsonStringAt(payload_file.text, Len(HeaderPrefix) + 1) = BOOTSTRAP_SECRET[r]
            /\ IsTrimOf(BOOTSTRAP_SECRET[r], ssm_stdout[r])

\* a payload file written for a secret with characters JSON escapes, fetched with
\* whitespace around it
C6_Witness ==
    \E r \in Runs :
        /\ HoldsPayloadOf(r)
        /\ Contains(BOOTSTRAP_SECRET[r], "\"")
        /\ Contains(BOOTSTRAP_SECRET[r], "\\")
        /\ Len(ssm_stdout[r]) = Len(BOOTSTRAP_SECRET[r]) + 2

\* the run ended in the handler of the decode failure, having printed the raw body
RawBodyPrinted(r) ==
    pc[r] = "exit" /\ exc[r] = "" /\ body_str[r] # Unset /\ body[r] = Unset

\* the run ended in the failure branch, having printed the failure body
FailureBodyPrinted(r) ==
    /\ pc[r] = "exit"
    /\ exc[r] = ""
    /\ body[r] # Unset
    /\ ~Truthy(Get(body[r], "success", JNull))

\* shown is full if full has at most 3000 characters, and its first 3000 if not
CutTo3000(shown, full) ==
    /\ Len(full) > 3000 => Len(shown) = 3000 /\ shown = SubSeq(full, 1, 3000)
    /\ Len(full) <= 3000 => shown = full

\* C7: a raw body or a failure body the run prints is cut to exactly 3000 characters
\* when it is longer, and printed unchanged when it is not.
C7_Truncation ==
    \A r \in Runs :
        /\ RawBodyPrinted(r) =>
              /\ StartsWith(Last(out[r]), RawPrefix)
              /\ CutTo3000(From(Last(out[r]), Len(RawPrefix)), body_str[r].v)
        /\ FailureBodyPrinted(r) =>
              /\ out[r][Len(out[r]) - 1] = "[X] FAILED"
              /\ CutTo3000(Last(out[r]), json_dumps_indent2(body[r]))

\* a failure body of more than 3000 characters has been printed, by a run whose
\* response body was itself no longer than 3000 characters
C7_Witness ==
    \E r \in Runs :
        /\ FailureBodyPrinted(r)
        /\ Len(json_dumps_indent2(body[r])) > 3000
        /\ Len(Last(out[r])) = 3000

\* the run printed the whole summary of a success body
SuccessRendered(r) ==
    /\ pc[r] = "exit"
    /\ exc[r] = ""
    /\ body[r] # Unset
    /\ IsDict(body[r])
    /\ Truthy(Get(body[r], "success", JNull))

StepsOf(r) == Get(body[r], "steps", JList(<<>>)).v

\* the line of a step: check mark, name, and the detail when it is not empty
ExpectedStepLine(s) ==
    "     [OK] " \o Item(s, "step").v
      \o (IF Has(s, "detail") /\ Item(s, "detail") # JStr("")
          THEN " -- " \o Item(s, "detail").v ELSE "")

\* lines starting with these texts occur in this order among the first n lines
RECURSIVE InOrder(_, _, _)
InOrder(lines, n, marks) ==
    IF Len(marks) = 0 THEN TRUE
    ELSE \E i \in 1..n :
            /\ StartsWith(lines[i], Last(marks))
            /\ InOrder(lines, i - 1, SubSeq(marks, 1, Len(marks) - 1))

\* C8 (as amended): on success the steps section comes last, after tenant, actors,
\* organizations, property and payment method: a header line with the number of
\* steps, then one line per step in the order of the steps sequence, each with the
\* check mark and the step name, and the detail suffix exactly when the step has a
\* non-empty detail.
C8_StepsSection ==
    \A r \in Runs :
        SuccessRendered(r) =>
            LET n == Len(StepsOf(r))
                header == Len(out[r]) - n
            IN  /\ header > 0
                /\ out[r][header] = "   Steps (" \o ToString(n) \o "):"
                /\ \A i \in 1..n : out[r][header + i] = ExpectedStepLine(StepsOf(r)[i])
                /\ InOrder(out[r], header - 1,
                           <<"   Tenant: ", "   Actors:", "   Organizations:",
                             "   Property: ", "   Payment Method: ">>)

\* a summary of two different steps, one with an empty detail, one with a detail
C8_Witness ==
    \E r \in Runs :
        /\ SuccessRendered(r)
        /\ Len(StepsOf(r)) = 2
        /\ Get(StepsOf(r)[1], "detail", JNull) = JStr("")
        /\ Truthy(Get(StepsOf(r)[2], "detail", JNull))

\* C8 (as claimed): the list of steps is enumerated: the line of the i-th step
\* displays its 1-based number i.
C8_StepsEnumerated ==
    \A r \in Runs :
        SuccessRendered(r) =>
            \A i \in 1..Len(StepsOf(r)) :
                Contains(out[r][Len(out[r]) - Len(StepsOf(r)) + i], ToString(i))

\* C9: a run that is alone submits the envelope it built: the invocation command
\* reads from the payload file the JSON text of that run's event, written by that run.
C9_AloneSubmitsOwnEnvelope ==
    \A r \in Runs :
        (calls[r].invoke > 0 /\ \A q \in Runs \ {r} : ~Started(q)) =>
            /\ submitted[r].exists
            /\ submitted[r].by = r
            /\ submitted[r].text = json_dumps(event[r])

\* two runs at once: the invocation command of one was given the envelope the other
\* wrote, and the other parsed the response the first one's invocation wrote
C9_Witness ==
    \E r \in Runs : \E q \in Runs \ {r} :
        /\ calls[r].invoke > 0
        /\ submitted[r].exists
        /\ submitted[r].by = q
        /\ submitted[r].text = json_dumps(event[q])
        /\ submitted[r].text # json_dumps(event[r])
        /\ read_from[q] = r

\* C10: the response file a run parses was written by that run's own invocation
\* command, never left by an earlier run.
C10_ResponseIsFresh ==
    \A r \in Runs : read_from[r] \in {"", r}

====
